---- MODULE Spec2Model ----
(***************************************************************************)
(* Model of the dataset viewer in app.py: the sample catalog               *)
(* (get_all_samples), the resolver (get_sample_data) and the navigation    *)
(* handlers (load_sample, on_prev, on_next, on_select) wired to the        *)
(* components of the page.                                                 *)
(*                                                                         *)
(* Strings that the program takes apart (paths, suffixes, identifiers)     *)
(* are sequences of one-character strings; fixed messages are strings.     *)
(* The filesystem is a POSIX one: names are case-sensitive.                *)
(***************************************************************************)
EXTENDS Integers, Sequences, FiniteSets, TLC

VARIABLES fs, samples, current_index, sample_dropdown, count_display,
          misleading_image, original_image, data_table, json_output, last

outputs == <<misleading_image, original_image, data_table, json_output,
             sample_dropdown, current_index, count_display>>

vars == <<fs, samples, current_index, sample_dropdown, count_display,
          misleading_image, original_image, data_table, json_output, last>>

-----------------------------------------------------------------------------
(* Bounds of the explored filesystems.                                     *)

MaxFiles == 3

MaxCorrupt == 1

\* the index arguments tried on load_sample: -MaxIndex..MaxIndex
MaxIndex == 4

-----------------------------------------------------------------------------
(* Characters and strings.                                                 *)

\* The characters of the model in code-point order (str comparison order).
Alphabet ==
  <<".", "/", "G", "J", "P", "_", "a", "b", "c", "d", "e", "g", "i", "j",
    "l", "n", "o", "p", "r", "s", "t", "v", "x", "z">>

Ord(c) == CHOOSE i \in 1..Len(Alphabet) : Alphabet[i] = c

\* str.lower() on one character
LowerChar(c) ==
  CASE c = "G" -> "g"
    [] c = "J" -> "j"
    [] c = "P" -> "p"
    [] OTHER -> c

\* str.lower()
Lower(s) == [i \in 1..Len(s) |-> LowerChar(s[i])]

\* s < t for Python strings: lexicographic on code points
StrLess(s, t) ==
  \E k \in 1..(Len(t)) :
     /\ \A i \in 1..(k - 1) : i <= Len(s) /\ s[i] = t[i]
     /\ \/ Len(s) = k - 1
        \/ Len(s) >= k /\ Ord(s[k]) < Ord(t[k])

\* str.rfind(c) + 1: the last position of c in s, 0 when there is none
RFind(s, c) ==
  IF \E i \in 1..Len(s) : s[i] = c
    THEN CHOOSE i \in 1..Len(s) : s[i] = c /\ \A j \in (i + 1)..Len(s) : s[j] # c
    ELSE 0

\* PurePath.name: the final component of a path
PathName(p) == SubSeq(p, RFind(p, "/") + 1, Len(p))

\* PurePath.suffix: the last dot-separated part of the final component
PathSuffix(p) ==
  LET name == PathName(p)
      i    == RFind(name, ".")
  IN  IF 1 < i /\ i < Len(name) THEN SubSeq(name, i, Len(name)) ELSE <<>>

\* PurePath.with_suffix(''): the path without its suffix
WithoutSuffix(p) == SubSeq(p, 1, Len(p) - Len(PathSuffix(p)))

None == <<"None">>

NoneValue == [kind |-> "None"]

-----------------------------------------------------------------------------
(* The directories of the dataset.                                         *)

FIGURES_DIR == "figures"

DATA_DIR == "data"

QA_DIR == "qa"

SCREENSHOTS_DIR == "screenshots/non-misleading"

\* os.path.join(root, rel)
Join(root, rel) == [root |-> root, rel |-> rel]

\* os.path.exists(p)
Exists(f, p) == p \in f.files

-----------------------------------------------------------------------------
(* Sample catalog.                                                         *)

IMAGE_SUFFIXES == {<<".", "j", "p", "g">>, <<".", "j", "p", "e", "g">>,
                   <<".", "p", "n", "g">>}

\* the loop of get_all_samples: one identifier appended per image file, in
\* the order in which rglob yields the files
RECURSIVE Collect(_)
Collect(paths) ==
  IF paths = {} THEN <<>>
  ELSE LET file_path == CHOOSE p \in paths : TRUE
           rest      == Collect(paths \ {file_path})
       IN  IF Lower(PathSuffix(file_path)) \in IMAGE_SUFFIXES
             THEN <<WithoutSuffix(file_path)>> \o rest
             ELSE rest

\* insertion of x into an ascending list, after the elements not above it
RECURSIVE Insert(_, _)
Insert(x, s) ==
  IF s = <<>> THEN <<x>>
  ELSE IF StrLess(x, Head(s)) THEN <<x>> \o s
  ELSE <<Head(s)>> \o Insert(x, Tail(s))

\* sorted(list)
RECURSIVE sorted(_)
sorted(s) == IF s = <<>> THEN <<>> ELSE Insert(Head(s), sorted(Tail(s)))

get_all_samples(f) ==
  sorted(Collect({p.rel : p \in {q \in f.files : q.root = FIGURES_DIR}}))

-----------------------------------------------------------------------------
(* Sample resolver.                                                        *)

\* the first existing path of a list of candidates, None when there is none
RECURSIVE FirstExisting(_, _)
FirstExisting(f, candidates) ==
  IF candidates = <<>> THEN NoneValue
  ELSE IF Exists(f, Head(candidates)) THEN Head(candidates)
  ELSE FirstExisting(f, Tail(candidates))

\* 1. Misleading Image
misleading_candidates(sample_id) ==
  << Join(FIGURES_DIR, sample_id \o <<".", "j", "p", "e", "g">>),
     Join(FIGURES_DIR, sample_id \o <<".", "j", "p", "g">>),
     Join(FIGURES_DIR, sample_id \o <<".", "p", "n", "g">>) >>

CODE_ORIGINAL == <<"c", "o", "d", "e", "_", "o", "r", "i", "g", "i", "n", "a", "l", "/">>

\* 2. Original Image (Screenshot)
possible_paths(sample_id) ==
  << Join(SCREENSHOTS_DIR, sample_id \o <<".", "j", "p", "g">>),
     Join(SCREENSHOTS_DIR, sample_id \o <<".", "j", "p", "e", "g">>),
     Join(SCREENSHOTS_DIR, sample_id \o <<".", "p", "n", "g">>),
     Join(SCREENSHOTS_DIR, CODE_ORIGINAL \o sample_id \o <<".", "j", "p", "g">>),
     Join(SCREENSHOTS_DIR, CODE_ORIGINAL \o sample_id \o <<".", "j", "p", "e", "g">>),
     Join(SCREENSHOTS_DIR, CODE_ORIGINAL \o sample_id \o <<".", "p", "n", "g">>) >>

\* pd.DataFrame(...) with one column per pair <<name, cells>>
DataFrame(columns, rows) ==
  [kind |-> "DataFrame", columns |-> columns, rows |-> rows]

\* a dict literal, as its items
Dict(items) == [kind |-> "dict", items |-> items]

\* the description of the exception a parser raises on a file it cannot read
ParseError(p) ==
  IF p.root = DATA_DIR THEN "No columns to parse from file"
  ELSE "Expecting value: line 1 column 1 (char 0)"

\* pd.read_csv(csv_path): the table of the file, or an exception
read_csv(f, csv_path) ==
  IF csv_path \in f.corrupt
    THEN [raised |-> TRUE, e |-> ParseError(csv_path)]
    ELSE [raised |-> FALSE,
          value |-> DataFrame(<<"label", "value">>, << <<"x", "1">> >>)]

\* json.load(f): the document of the file, or an exception
json_load(f, json_path) ==
  IF json_path \in f.corrupt
    THEN [raised |-> TRUE, e |-> ParseError(json_path)]
    ELSE [raised |-> FALSE,
          value |-> Dict(<< <<"question", "q">>, <<"answer", "a">> >>)]

\* the CSV branch with the description of the exception left out
csv_data_no_desc(f, sample_id) ==
  LET csv_path == Join(DATA_DIR, sample_id \o <<".", "c", "s", "v">>)
      r        == read_csv(f, csv_path)
  IN  IF Exists(f, csv_path)
        THEN IF r.raised
               THEN DataFrame(<<"Error">>, << <<"Could not read CSV">> >>)
               ELSE r.value
        ELSE DataFrame(<<"Info">>, << <<"No CSV file found">> >>)

\* 3. CSV Data
csv_data(f, sample_id) ==
  LET csv_path == Join(DATA_DIR, sample_id \o <<".", "c", "s", "v">>)
      r        == read_csv(f, csv_path)
  IN  IF Exists(f, csv_path)
        THEN IF r.raised
               THEN DataFrame(<<"Error">>, << <<"Could not read CSV: " \o r.e>> >>)
               ELSE r.value
        ELSE DataFrame(<<"Info">>, << <<"No CSV file found">> >>)

\* 4. JSON QA
json_qa(f, sample_id) ==
  LET json_path == Join(QA_DIR, sample_id \o <<".", "j", "s", "o", "n">>)
      r         == json_load(f, json_path)
  IN  IF Exists(f, json_path)
        THEN IF r.raised
               THEN Dict(<< <<"Error", "Could not read JSON: " \o r.e>> >>)
               ELSE r.value
        ELSE Dict(<< <<"Info", "No JSON file found">> >>)

get_sample_data(f, sample_id) ==
  [misleading_path |-> FirstExisting(f, misleading_candidates(sample_id)),
   original_path   |-> FirstExisting(f, possible_paths(sample_id)),
   df              |-> csv_data(f, sample_id),
   json_data       |-> json_qa(f, sample_id)]

-----------------------------------------------------------------------------
(* Navigation.                                                             *)

\* Image.open(path): the decoded image, or an exception
Image_open(f, path) ==
  IF path \in f.corrupt
    THEN [raised |-> TRUE, exc |-> "UnidentifiedImageError"]
    ELSE [raised |-> FALSE, value |-> [kind |-> "Image", path |-> path]]

Returned(out) == [raised |-> FALSE, exc |-> "", out |-> out]

Raised(exc) == [raised |-> TRUE, exc |-> exc, out |-> <<>>]

\* the clamp without its upper bound: max(0, index)
ClampIndexNoUpper(index, n) == IF index > 0 THEN index ELSE 0

\* max(0, min(index, len(samples) - 1))
ClampIndex(index, n) ==
  LET m == IF index < n - 1 THEN index ELSE n - 1
  IN  IF m > 0 THEN m ELSE 0

\* the empty result with the count in the format of the non-empty case
EmptyResultSpaced ==
  <<NoneValue, NoneValue, DataFrame(<<>>, <<>>), Dict(<<>>), None, 0, "0 / 0">>

\* the result of load_sample on an empty catalog
EmptyResult ==
  <<NoneValue, NoneValue, DataFrame(<<>>, <<>>), Dict(<<>>), None, 0, "0/0">>

\* f"{idx + 1} / {len(samples)}"
count_str(idx, n) == ToString(idx + 1) \o " / " \o ToString(n)

load_sample(f, smp, index) ==
  IF smp = <<>> THEN Returned(EmptyResult)
  ELSE
    LET n   == Len(smp)
        idx == ClampIndex(index, n)
    IN  IF idx < -n \/ idx >= n THEN Raised("IndexError")
        ELSE
          LET sample_id == smp[IF idx >= 0 THEN idx + 1 ELSE n + idx + 1]
              d  == get_sample_data(f, sample_id)
              mi == IF d.misleading_path # NoneValue
                      THEN Image_open(f, d.misleading_path)
                      ELSE [raised |-> FALSE, value |-> NoneValue]
              oi == IF d.original_path # NoneValue
                      THEN Image_open(f, d.original_path)
                      ELSE [raised |-> FALSE, value |-> NoneValue]
          IN  IF mi.raised THEN Raised(mi.exc)
              ELSE IF oi.raised THEN Raised(oi.exc)
              ELSE Returned(<<mi.value, oi.value, d.df, d.json_data,
                              sample_id, idx, count_str(idx, n)>>)

\* previous that wraps around to the last sample
on_prev_wrap(f, smp, idx) ==
  load_sample(f, smp, IF idx = 0 THEN Len(smp) - 1 ELSE idx - 1)

on_prev(f, smp, idx) == load_sample(f, smp, idx - 1)

on_next(f, smp, idx) == load_sample(f, smp, idx + 1)

\* samples.index(val): the first position of val, counted from 0
IndexOf(smp, val) ==
  (CHOOSE i \in 1..Len(smp) : smp[i] = val /\ \A j \in 1..(i - 1) : smp[j] # val) - 1

on_select(f, smp, val) ==
  IF \E i \in 1..Len(smp) : smp[i] = val
    THEN load_sample(f, smp, IndexOf(smp, val))
    ELSE load_sample(f, smp, 0)

-----------------------------------------------------------------------------
(* The filesystems explored: at most MaxFiles files, of which at most      *)
(* MaxCorrupt cannot be decoded or parsed.                                 *)

Stems == { <<"a", "/", "b">>, <<"a", "/", "c">>, <<"z">> }

\* files under the figures root: images in lower-case and upper-case
\* suffixes, two and three of them for one stem, and a file that is no image
FigureFiles ==
  { Join(FIGURES_DIR, <<"a", "/", "b", ".", "j", "p", "e", "g">>),
    Join(FIGURES_DIR, <<"a", "/", "b", ".", "p", "n", "g">>),
    Join(FIGURES_DIR, <<"a", "/", "b", ".", "J", "P", "G">>),
    Join(FIGURES_DIR, <<"a", "/", "c", ".", "p", "n", "g">>),
    Join(FIGURES_DIR, <<"z", ".", "p", "n", "g">>),
    Join(FIGURES_DIR, <<"z", ".", "J", "P", "G">>),
    Join(FIGURES_DIR, <<"z", ".", "t", "x", "t">>) }

CompanionStems == { <<"a", "/", "c">> }

\* screenshots at the first and the fifth candidate place, a CSV file and a
\* JSON file
CompanionFiles ==
  UNION { { possible_paths(s)[i] : i \in {1, 5} }
          \cup { Join(DATA_DIR, s \o <<".", "c", "s", "v">>),
                 Join(QA_DIR, s \o <<".", "j", "s", "o", "n">>) }
          : s \in CompanionStems }

RECURSIVE SubsetsUpTo(_, _)
SubsetsUpTo(S, k) ==
  IF k = 0 \/ S = {} THEN { {} }
  ELSE LET x == CHOOSE y \in S : TRUE
           without == SubsetsUpTo(S \ {x}, k)
           with    == { T \cup {x} : T \in SubsetsUpTo(S \ {x}, k - 1) }
       IN  without \cup with

FileSystems ==
  UNION { { [files |-> F, corrupt |-> C] : C \in SubsetsUpTo(F, MaxCorrupt) }
          : F \in SubsetsUpTo(FigureFiles \cup CompanionFiles, MaxFiles) }

-----------------------------------------------------------------------------
(* The page: construction, and one action per event listener.              *)

Init ==
  /\ fs \in FileSystems
  /\ samples = get_all_samples(fs)
  /\ current_index = 0
  /\ sample_dropdown = IF samples # <<>> THEN samples[1] ELSE None
  /\ count_display = ""
  /\ misleading_image = NoneValue
  /\ original_image = NoneValue
  /\ data_table = NoneValue
  /\ json_output = NoneValue
  /\ last = [op |-> "start", from |-> 0, val |-> None, result |-> Returned(<<>>)]

\* the outputs of a listener are written when its function returns, and are
\* left as they are when it raises
Write(r) ==
  IF r.raised
    THEN UNCHANGED <<misleading_image, original_image, data_table, json_output,
                     current_index, count_display>>
    ELSE /\ misleading_image' = r.out[1]
         /\ original_image' = r.out[2]
         /\ data_table' = r.out[3]
         /\ json_output' = r.out[4]
         /\ current_index' = r.out[6]
         /\ count_display' = r.out[7]

\* demo.load
Load ==
  /\ last.op = "start"
  /\ LET r == load_sample(fs, samples, current_index)
     IN  /\ Write(r)
         /\ sample_dropdown' = IF r.raised THEN sample_dropdown ELSE r.out[5]
         /\ last' = [op |-> "load", from |-> current_index, val |-> None, result |-> r]
  /\ UNCHANGED <<fs, samples>>

\* prev_btn.click
Prev ==
  /\ last.op # "start"
  /\ LET r == on_prev(fs, samples, current_index)
     IN  /\ Write(r)
         /\ sample_dropdown' = IF r.raised THEN sample_dropdown ELSE r.out[5]
         /\ last' = [op |-> "prev", from |-> current_index, val |-> None, result |-> r]
  /\ UNCHANGED <<fs, samples>>

\* next_btn.click
NextSample ==
  /\ last.op # "start"
  /\ LET r == on_next(fs, samples, current_index)
     IN  /\ Write(r)
         /\ sample_dropdown' = IF r.raised THEN sample_dropdown ELSE r.out[5]
         /\ last' = [op |-> "next", from |-> current_index, val |-> None, result |-> r]
  /\ UNCHANGED <<fs, samples>>

\* the values a selection event can carry: a choice, nothing, or a value that
\* is not among the choices
Selectable == { samples[i] : i \in 1..Len(samples) } \cup { None, <<"q">> }

\* sample_dropdown.select: the dropdown holds the selected value when the
\* listener runs
Select(val) ==
  /\ last.op # "start"
  /\ LET r == on_select(fs, samples, val)
     IN  /\ Write(r)
         /\ sample_dropdown' = IF r.raised THEN val ELSE r.out[5]
         /\ last' = [op |-> "select", from |-> current_index, val |-> val, result |-> r]
  /\ UNCHANGED <<fs, samples>>

Next ==
  \/ Load
  \/ Prev
  \/ NextSample
  \/ \E val \in Selectable : Select(val)

Spec == Init /\ [][Next]_vars

-----------------------------------------------------------------------------
(* Properties.  The filesystem and the catalog never change, so what a      *)
(* property says of load_sample and get_sample_data as functions of them   *)
(* is evaluated in the first state of each behaviour, and what it says of  *)
(* the events in every state.                                              *)

N == Len(samples)

Catalog == { samples[i] : i \in 1..N }

IndexArgs == (-MaxIndex)..MaxIndex

\* C1: with a non-empty catalog the stored position is always in 0..N-1,
\* every position returned by a navigation operation or by load_sample on
\* any index (negative, in range, N or above) is in 0..N-1, and no request
\* raises an IndexError: an out-of-range index is clamped.
C1_PositionInRange ==
  samples # <<>> =>
    /\ current_index \in 0..(N - 1)
    /\ last.result.exc # "IndexError"
    /\ ~last.result.raised /\ last.op # "start" => last.result.out[6] \in 0..(N - 1)
    /\ last.op = "start" =>
         \A i \in IndexArgs :
           LET r == load_sample(fs, samples, i)
           IN  /\ r.exc # "IndexError"
               /\ ~r.raised => r.out[6] \in 0..(N - 1)

\* next requested at the last position of a catalog of three: index 3 is
\* clamped to 2
C1_Witness ==
  /\ N = 3
  /\ last.op = "next"
  /\ last.from = 2
  /\ ~last.result.raised
  /\ current_index = 2

\* C2: with an empty catalog every navigation operation returns the
\* degenerate tuple (None, None, empty table, empty mapping, None, 0, "0/0")
\* without raising, from any current position.
C2_EmptyCatalog ==
  LET degenerate ==
        [raised |-> FALSE, exc |-> "",
         out |-> << [kind |-> "None"], [kind |-> "None"],
                    [kind |-> "DataFrame", columns |-> <<>>, rows |-> <<>>],
                    [kind |-> "dict", items |-> <<>>],
                    <<"None">>, 0, "0/0" >>]
  IN  samples = <<>> =>
        /\ last.op # "start" => last.result = degenerate /\ outputs = degenerate.out
        /\ last.op = "start" =>
             /\ \A i \in IndexArgs :
                  /\ load_sample(fs, samples, i) = degenerate
                  /\ on_prev(fs, samples, i) = degenerate
                  /\ on_next(fs, samples, i) = degenerate
             /\ \A val \in Selectable \cup Stems :
                  on_select(fs, samples, val) = degenerate

\* a selection handled on a filesystem that holds files but no image
C2_Witness ==
  /\ samples = <<>>
  /\ fs.files # {}
  /\ last.op = "select"
  /\ count_display = "0/0"

\* the identifiers of the image files under the figures root
ImageIds ==
  { WithoutSuffix(p.rel) :
      p \in { q \in fs.files : /\ q.root = FIGURES_DIR
                               /\ Lower(PathSuffix(q.rel)) \in IMAGE_SUFFIXES } }

\* C3: the catalog holds exactly the relative paths without extension of the
\* image files, in strictly ascending order: one entry per identifier.
C3_BuildExact ==
  /\ Catalog = ImageIds
  /\ \A i \in 1..N : \A j \in 1..N : i < j => StrLess(samples[i], samples[j])
  /\ N = Cardinality(ImageIds)

\* C4: every identifier of the catalog resolves to a primary image path.
C4_CatalogIdsResolve ==
  \A i \in 1..N : get_sample_data(fs, samples[i]).misleading_path # NoneValue

\* C5: every navigation operation returns a result instead of raising.
C5_NavigationNeverRaises == ~last.result.raised

\* C6: for each companion file of a sample (CSV, JSON) the resolver gives the
\* Info placeholder when the file is absent, the Error placeholder carrying
\* the description of the parse failure when it is present and unparsable,
\* and the parsed content otherwise; each outcome depends only on that file.
C6_CompanionOutcomes ==
  /\ last.op = "start" => \A s \in Stems \cup Catalog :
       LET d         == get_sample_data(fs, s)
           csv_path  == [root |-> DATA_DIR, rel |-> s \o <<".", "c", "s", "v">>]
           json_path == [root |-> QA_DIR, rel |-> s \o <<".", "j", "s", "o", "n">>]
       IN  /\ csv_path \notin fs.files =>
                d.df.columns = <<"Info">> /\ Len(d.df.rows) = 1
           /\ csv_path \in fs.files /\ csv_path \in fs.corrupt =>
                /\ d.df.columns = <<"Error">>
                /\ d.df.rows = << <<"Could not read CSV: " \o ParseError(csv_path)>> >>
           /\ csv_path \in fs.files /\ csv_path \notin fs.corrupt =>
                d.df = read_csv(fs, csv_path).value
           /\ json_path \notin fs.files =>
                Len(d.json_data.items) = 1 /\ d.json_data.items[1][1] = "Info"
           /\ json_path \in fs.files /\ json_path \in fs.corrupt =>
                d.json_data.items =
                  << <<"Error", "Could not read JSON: " \o ParseError(json_path)>> >>
           /\ json_path \in fs.files /\ json_path \notin fs.corrupt =>
                d.json_data = json_load(fs, json_path).value
  /\ (samples # <<>> /\ last.op # "start" /\ ~last.result.raised) =>
       LET d == get_sample_data(fs, last.result.out[5])
       IN  data_table = d.df /\ json_output = d.json_data

\* a sample shown with an unparsable CSV file next to a parsed JSON file
C6_Witness ==
  /\ last.op # "start"
  /\ ~last.result.raised
  /\ data_table.columns = <<"Error">>
  /\ json_output.items[1][1] = "question"
  /\ misleading_image # NoneValue

\* C7: navigation never wraps around: after previous at position 0 the
\* position is 0, and after next at position N-1 the position is N-1.
C7_NoWrap ==
  samples # <<>> =>
    /\ last.op = "prev" /\ last.from = 0 =>
         /\ current_index = 0
         /\ ~last.result.raised => last.result.out[6] = 0
    /\ last.op = "next" /\ last.from = N - 1 =>
         /\ current_index = N - 1
         /\ ~last.result.raised => last.result.out[6] = N - 1

\* previous at position 0 of a catalog of three
C7_Witness ==
  /\ N = 3
  /\ last.op = "prev"
  /\ last.from = 0
  /\ ~last.result.raised
  /\ sample_dropdown = samples[1]

\* C8: after a selection of an identifier of the catalog the position p
\* satisfies Catalog[p] = id and the dropdown holds id; a selection of any
\* other value gives the result of load_sample(0).
C8_SelectById ==
  last.op = "select" =>
    IF last.val \in Catalog
      THEN /\ ~last.result.raised
           /\ samples[current_index + 1] = last.val
           /\ last.result.out[5] = last.val
           /\ sample_dropdown = last.val
      ELSE last.result = load_sample(fs, samples, 0)

\* C9: in the interior, from a position p whose record load_sample returns,
\* next followed by previous comes back to position p, to its identifier and
\* to its record.
C9_RoundTrip ==
  [][ (/\ last.op = "next"
       /\ last.from <= N - 2
       /\ ~load_sample(fs, samples, last.from).raised
       /\ last'.op = "prev")
      => /\ current_index' = last.from
         /\ sample_dropdown' = samples[last.from + 1]
         /\ last'.result = load_sample(fs, samples, last.from) ]_vars

\* C10: after a navigation event on a non-empty catalog the dropdown, the
\* stored index, the count display and the record shown all describe the
\* catalog entry at the stored index.
C10_Consistent ==
  (samples # <<>> /\ last.op # "start") =>
    LET d == get_sample_data(fs, samples[current_index + 1])
    IN  /\ sample_dropdown = samples[current_index + 1]
        /\ count_display = ToString(current_index + 1) \o " / " \o ToString(N)
        /\ data_table = d.df
        /\ json_output = d.json_data
        /\ (misleading_image = NoneValue) = (d.misleading_path = NoneValue)
        /\ misleading_image # NoneValue => misleading_image.path = d.misleading_path
        /\ (original_image = NoneValue) = (d.original_path = NoneValue)
        /\ original_image # NoneValue => original_image.path = d.original_path

====
